---- MODULE Spec2Model ----
(***************************************************************************)
(* Model of public/scripts/reasoning.js: the streaming ReasoningHandler    *)
(* (process / finish / updateTime), and the PromptReasoning counter        *)
(* (isLimitReached / addToMessage), parseReasoningFromString with the      *)
(* MESSAGE_RECEIVED auto-parse handler, and isHiddenReasoningModel.        *)
(*                                                                         *)
(* Strings are sequences of one-character strings.  A Date is the integer  *)
(* number of milliseconds it holds; null is Null.                          *)
(***************************************************************************)
EXTENDS Integers, Sequences, FiniteSets, TLC

\* ---------------------------------------------------------------- bounds
MaxLen == 1
MaxTime == 3
MaxAdditionsBound == 2
MaxCalls == 4
MaxInputLen == 6
MaxModelLen == 2
MaxInFlight == 2

\* ------------------------------------------------------- values and strings
Null == -1
UndefinedNum == -2
Undefined == <<"undefined">>

Char == {" ", "a", "b"}

RECURSIVE StringsOfLen(_)
StringsOfLen(n) ==
    IF n = 0 THEN {<<>>}
    ELSE {Append(s, c) : s \in StringsOfLen(n - 1), c \in Char}

Strings == UNION {StringsOfLen(n) : n \in 0..MaxLen}

\* the white space among the characters modelled: space and line feed
IsSpace(c) == c \in {" ", "\n"}

RECURSIVE TrimStart(_)
TrimStart(s) ==
    IF s # <<>> /\ IsSpace(Head(s)) THEN TrimStart(Tail(s)) ELSE s

RECURSIVE TrimEnd(_)
TrimEnd(s) ==
    IF s # <<>> /\ IsSpace(s[Len(s)]) THEN TrimEnd(SubSeq(s, 1, Len(s) - 1)) ELSE s

\* String.prototype.trim
Trim(s) == TrimEnd(TrimStart(s))

\* The regex post-processing hook: the configured script either leaves the
\* text alone or deletes every "b".
RegexScripts == {"none", "stripB"}

IsNotB(c) == c # "b"

IsNotDot(c) == c # "."

getRegexedString(s, script) ==
    IF script = "stripB" THEN SelectSeq(s, IsNotB)
    ELSE IF script = "stripDot" THEN SelectSeq(s, IsNotDot)
    ELSE s

\* ------------------------------------------------------------------ state
VARIABLES
    state,          \* ReasoningHandler.state
    reasoning,      \* ReasoningHandler.reasoning
    startTime,      \* ReasoningHandler.startTime
    endTime,        \* ReasoningHandler.endTime
    initialTime,    \* ReasoningHandler.initialTime
    isHidden,       \* ReasoningHandler.#isHidden
    extra,          \* chat[messageId].extra
    trim_spaces,    \* power_user.trim_spaces
    regexScript,    \* the regex scripts configured for the REASONING placement
    clock,          \* the wall clock
    doneCount,      \* number of STREAM_REASONING_DONE emissions so far
    emitted,        \* the STREAM_REASONING_DONE payload the last call emitted
    lastOp,         \* the call that produced this state
    endBy,          \* which method committed endTime
    finishedStarted, \* finish has been called with a start time recorded
    scenarioCycle,  \* the number of process cycles so far, while the session
                    \* follows the scenario of ScenarioNext, else -1
    typeError,      \* a call threw on reading or writing a missing extra
    pending         \* the calls suspended at their await of the emission

trackerVars == <<state, reasoning, startTime, endTime, initialTime, isHidden,
                 extra, trim_spaces, regexScript, clock, doneCount, emitted,
                 lastOp, endBy, finishedStarted, scenarioCycle, typeError, pending>>

\* PromptReasoning and the settings it reads
VARIABLES
    counter,        \* PromptReasoning.counter
    settings,       \* power_user.reasoning: add_to_prompts, max_additions,
                    \* prefix, suffix, separator
    result,         \* what the last addToMessage call returned
    lastCall,       \* the arguments of the last addToMessage call
    calls,          \* number of addToMessage calls so far
    prefixAdds,     \* number of isPrefix calls that incremented the counter
    onlyPlain       \* every call so far was non-prefix with real reasoning

promptVars == <<counter, settings, result, lastCall, calls, prefixAdds, onlyPlain>>

\* parseReasoningFromString and its callers
VARIABLES
    mes,            \* the text at hand: chat[idx].mes, or the string to parse
    parsedFrom,     \* the string parseReasoningFromString was last called with
    parsed,         \* what that call returned
    prevParsed,     \* what the call before it returned
    auto_parse,     \* power_user.reasoning.auto_parse
    received        \* the last run of the MESSAGE_RECEIVED handler

parseVars == <<mes, parsedFrom, parsed, prevParsed, auto_parse, received>>

\* what isHiddenReasoningModel reads
VARIABLES
    main_api,               \* the backend in use
    chat_completion_source, \* oai_settings.chat_completion_source
    openai_model,           \* oai_settings.openai_model
    google_model,           \* oai_settings.google_model
    hiddenAsked             \* isHiddenReasoningModel has been called

apiVars == <<main_api, chat_completion_source, openai_model, google_model, hiddenAsked>>

vars == <<trackerVars, promptVars, parseVars, apiVars>>

\* no emission; otherwise the text and what the duration resolver returns
NoEvent == [sent |-> FALSE, text |-> <<>>, duration |-> Null]

NoExtra == [present |-> FALSE, reasoning |-> Undefined, reasoning_duration |-> UndefinedNum]
EmptyExtra == [present |-> TRUE, reasoning |-> Undefined, reasoning_duration |-> UndefinedNum]

\* ReasoningState
ReasoningState == [None |-> "none", Thinking |-> "thinking", Done |-> "done", Hidden |-> "hidden"]

\* ------------------------------------------------------- ReasoningHandler
getDuration_EndOnly(start, end) ==
    IF end # Null THEN end ELSE Null

getDuration(start, end) ==
    IF start # Null /\ end # Null THEN end - start ELSE Null

\* process, line 267
ProcessSkips_Never(r, hidden) == FALSE

ProcessSkips_Empty(r, hidden) == r = <<>>

ProcessSkips(r, hidden) == r = <<>> /\ ~hidden

\* process, line 280
SetsStart_Unconditional(hidden, reasoningChanged, start) == start = Null

SetsStart(hidden, reasoningChanged, start) ==
    (hidden \/ reasoningChanged) /\ start = Null

\* process, line 283
SetsEnd_Stable(hidden, reasoningChanged, mesChanged, start, end) ==
    (hidden \/ ~reasoningChanged) /\ ~mesChanged /\ start # Null /\ end = Null

SetsEnd_Changed(hidden, reasoningChanged, mesChanged, start, end) ==
    mesChanged /\ start # Null /\ end = Null

SetsEnd_Again(hidden, reasoningChanged, mesChanged, start, end) ==
    (hidden \/ ~reasoningChanged) /\ mesChanged /\ start # Null

SetsEnd(hidden, reasoningChanged, mesChanged, start, end) ==
    (hidden \/ ~reasoningChanged) /\ mesChanged /\ start # Null /\ end = Null

\* finish, line 299
FinishFinalizes_Again(start, end) == start # Null

FinishFinalizes_Unstarted(start, end) == end = Null

FinishFinalizes_Started(start, end) == start # Null /\ (end = Null \/ pending # <<>>)

FinishFinalizes(start, end) == start # Null /\ end = Null

\* process, line 276, and finish, line 301
FinalReasoning_Untrimmed(r) == r

FinalReasoning(r) == IF trim_spaces THEN Trim(r) ELSE r

\* updateTime(messageId): stores the duration in the message's extra; the
\* write throws when the message has no extra object
updateTime_Dropped(ex, duration) == ex

updateTime(ex, duration) ==
    IF ex.present THEN [ex EXCEPT !.reasoning_duration = duration] ELSE ex

TrackerInit ==
    /\ state = ReasoningState.None
    /\ reasoning = <<>>
    /\ startTime = Null
    /\ endTime = Null
    /\ initialTime \in 0..1
    /\ isHidden \in BOOLEAN
    /\ extra \in {NoExtra, EmptyExtra,
                  [present |-> TRUE, reasoning |-> <<"a">>, reasoning_duration |-> UndefinedNum]}
    /\ trim_spaces \in BOOLEAN
    /\ regexScript \in RegexScripts
    /\ clock = initialTime
    /\ doneCount = 0
    /\ emitted = NoEvent
    /\ lastOp = [name |-> "new", mesChanged |-> FALSE, started |-> FALSE]
    /\ endBy = "none"
    /\ finishedStarted = FALSE
    /\ scenarioCycle = 0
    /\ typeError = FALSE
    /\ pending = <<>>

\* History of the session against the scenario of C2: a non-hidden session
\* whose first cycle records no start time, whose second cycle records it, and
\* whose message body changes for the first time in the fifth cycle.  n is
\* the number of cycles so far if all of them followed it, and -1 otherwise.
ScenarioNext(n, mesChanged, startBefore, startAfter) ==
    IF isHidden \/ n < 0 \/ n >= 5 THEN -1
    ELSE IF n = 0 THEN (IF ~mesChanged /\ startAfter = Null THEN 1 ELSE -1)
    ELSE IF n = 1 THEN (IF ~mesChanged /\ startBefore = Null /\ startAfter # Null
                        THEN 2 ELSE -1)
    ELSE IF n < 4 THEN (IF ~mesChanged THEN n + 1 ELSE -1)
    ELSE (IF mesChanged THEN 5 ELSE -1)

\* updateReasoning(reasoning) as the stream calls it with the accumulated text
updateReasoning(r) ==
    /\ reasoning' = getRegexedString(r, regexScript)
    /\ lastOp' = [name |-> "updateReasoning", mesChanged |-> FALSE, started |-> FALSE]
    /\ UNCHANGED <<state, startTime, endTime, initialTime, isHidden, extra,
                   trim_spaces, regexScript, clock, doneCount, endBy,
                   finishedStarted, scenarioCycle, typeError, pending>>
    /\ emitted' = NoEvent
    /\ UNCHANGED <<promptVars, parseVars, apiVars>>

\* process, lines 272-274, and the MESSAGE_RECEIVED handler, lines 741-743
EnsureExtra_Missing(ex) == ex

EnsureExtra(ex) == IF ex.present THEN ex ELSE EmptyExtra

\* process(messageId, mesChanged, currentTime).  With awaits false the call
\* runs to its end; with awaits true it stops at the await of the emission,
\* when it emits, and resume runs the rest.
processCall(mesChanged, currentTime, awaits) ==
    /\ clock' = currentTime
    /\ IF ProcessSkips(reasoning, isHidden)
       THEN /\ emitted' = NoEvent
            /\ UNCHANGED <<state, reasoning, startTime, endTime, extra, doneCount,
                           endBy, typeError, pending>>
       ELSE LET r1 == getRegexedString(reasoning, regexScript)
                extra1 == EnsureExtra(extra)
                finalReasoning == FinalReasoning(r1)
                reasoningChanged == extra1.reasoning # finalReasoning
                start1 == IF SetsStart(isHidden, reasoningChanged, startTime)
                          THEN initialTime ELSE startTime
                ends == SetsEnd(isHidden, reasoningChanged, mesChanged, start1, endTime)
                end1 == IF ends THEN currentTime ELSE endTime
                extra2 == IF extra1.present
                          THEN [extra1 EXCEPT !.reasoning = finalReasoning]
                          ELSE extra1
            IN  /\ reasoning' = r1
                /\ startTime' = start1
                /\ endTime' = end1
                /\ doneCount' = IF ends THEN doneCount + 1 ELSE doneCount
                /\ emitted' = IF ends
                              THEN [sent |-> TRUE, text |-> finalReasoning,
                                    duration |-> getDuration(start1, end1)]
                              ELSE NoEvent
                /\ endBy' = IF ends THEN "process" ELSE endBy
                /\ typeError' = (typeError \/ ~extra1.present)
                /\ IF awaits /\ ends
                   THEN /\ extra' = extra2
                        /\ pending' = Append(pending, "process")
                   ELSE /\ extra' = updateTime(extra2, getDuration(start1, end1))
                        /\ UNCHANGED pending
                /\ UNCHANGED state
    /\ scenarioCycle' = ScenarioNext(scenarioCycle, mesChanged, startTime, startTime')
    /\ lastOp' = [name |-> "process", mesChanged |-> mesChanged,
                  started |-> startTime' # startTime]
    /\ UNCHANGED <<initialTime, isHidden, trim_spaces, regexScript, finishedStarted>>
    /\ UNCHANGED <<promptVars, parseVars, apiVars>>

process(mesChanged, currentTime) == processCall(mesChanged, currentTime, FALSE)

\* finish(messageId); new Date() is the wall clock.  awaits as in processCall.
finishCall(now, awaits) ==
    /\ clock' = now
    /\ lastOp' = [name |-> "finish", mesChanged |-> FALSE, started |-> FALSE]
    /\ finishedStarted' = (finishedStarted \/ startTime # Null)
    /\ IF FinishFinalizes(startTime, endTime)
       THEN /\ endTime' = now
            /\ doneCount' = doneCount + 1
            /\ emitted' = [sent |-> TRUE, text |-> FinalReasoning(reasoning),
                           duration |-> getDuration(startTime, now)]
            /\ endBy' = "finish"
            /\ IF awaits
               THEN /\ pending' = Append(pending, "finish")
                    /\ UNCHANGED <<extra, typeError>>
               ELSE /\ extra' = updateTime(extra, getDuration(startTime, now))
                    /\ typeError' = (typeError \/ ~extra.present)
                    /\ UNCHANGED pending
       ELSE /\ emitted' = NoEvent
            /\ UNCHANGED <<endTime, doneCount, endBy, extra, typeError, pending>>
    /\ UNCHANGED <<state, reasoning, startTime, initialTime, isHidden,
                   trim_spaces, regexScript, scenarioCycle>>
    /\ UNCHANGED <<promptVars, parseVars, apiVars>>

finish(now) == finishCall(now, FALSE)

\* the i-th suspended call goes on after its await of the emission:
\* await this.updateTime(messageId)
resume(i) ==
    /\ i \in 1..Len(pending)
    /\ pending' = SubSeq(pending, 1, i - 1) \o SubSeq(pending, i + 1, Len(pending))
    /\ extra' = updateTime(extra, getDuration(startTime, endTime))
    /\ typeError' = (typeError \/ ~extra.present)
    /\ lastOp' = [name |-> "resume", mesChanged |-> FALSE, started |-> FALSE]
    /\ emitted' = NoEvent
    /\ UNCHANGED <<state, reasoning, startTime, endTime, initialTime, isHidden,
                   trim_spaces, regexScript, clock, doneCount, endBy,
                   finishedStarted, scenarioCycle>>
    /\ UNCHANGED <<promptVars, parseVars, apiVars>>

TrackerNext ==
    \/ \E r \in Strings : updateReasoning(r)
    \/ \E m \in BOOLEAN, t \in clock..MaxTime : process(m, t)
    \/ \E t \in clock..MaxTime : finish(t)

\* the calls of a caller that does not wait for one call to end before it
\* makes the next
AsyncNext ==
    \/ \E r \in Strings : updateReasoning(r)
    \/ \E m \in BOOLEAN, t \in clock..MaxTime :
          Len(pending) < MaxInFlight /\ processCall(m, t, TRUE)
    \/ \E t \in clock..MaxTime :
          Len(pending) < MaxInFlight /\ finishCall(t, TRUE)
    \/ \E i \in 1..MaxInFlight : resume(i)

\* -------------------------------------------------------- PromptReasoning
\* PromptReasoning.REASONING_PLACEHOLDER, the zero-width space
REASONING_PLACEHOLDER == <<"z">>

\* substituteParams: macro substitution; the macro "m" expands to "u"
SubstChar(c) == IF c = "m" THEN "u" ELSE c

substituteParams(s) == [i \in 1..Len(s) |-> SubstChar(s[i])]

\* x || ''
OrEmpty(s) == IF s = Undefined THEN <<>> ELSE s

Contents == {<<>>, <<"c">>}
Reasonings == {Undefined, <<>>, REASONING_PLACEHOLDER, <<"r">>, <<"z", "r">>}
Prefixes == {Undefined, <<"<">>, <<"m">>}
Suffixes == {<<>>, <<">">>}
Separators == {Undefined, <<"|">>}

\* addToMessage, line 353
LimitBlocks_OffByOne(isPrefix, add_to_prompts, cnt, max_additions) ==
    ~isPrefix /\ (~add_to_prompts \/ cnt > max_additions)

LimitBlocks(isPrefix, add_to_prompts, cnt, max_additions) ==
    ~isPrefix /\ (~add_to_prompts \/ cnt >= max_additions)

\* addToMessage, line 358
NoReasoning_PlaceholderInjected(r) == r = Undefined \/ r = <<>>

NoReasoning(r) == r = Undefined \/ r = <<>> \/ r = REASONING_PLACEHOLDER

\* addToMessage, lines 366-376
Combine_SeparatorFirst(content, r, isPrefix, cfg) ==
    LET prefix == substituteParams(OrEmpty(cfg.prefix))
        separator == substituteParams(OrEmpty(cfg.separator))
        suffix == substituteParams(OrEmpty(cfg.suffix))
    IN  IF isPrefix /\ content = <<>>
        THEN prefix \o r
        ELSE prefix \o r \o separator \o suffix \o content

Combine(content, r, isPrefix, cfg) ==
    LET prefix == substituteParams(OrEmpty(cfg.prefix))
        separator == substituteParams(OrEmpty(cfg.separator))
        suffix == substituteParams(OrEmpty(cfg.suffix))
    IN  IF isPrefix /\ content = <<>>
        THEN prefix \o r
        ELSE prefix \o r \o suffix \o separator \o content

isLimitReached_Strict ==
    IF ~settings.add_to_prompts THEN TRUE
    ELSE counter > settings.max_additions

isLimitReached ==
    IF ~settings.add_to_prompts THEN TRUE
    ELSE counter >= settings.max_additions

PromptIdle ==
    /\ counter = 0
    /\ result = <<>>
    /\ lastCall = [content |-> <<>>, reasoning |-> <<>>, isPrefix |-> FALSE]
    /\ calls = 0
    /\ prefixAdds = 0
    /\ onlyPlain = TRUE

DefaultSettings ==
    [add_to_prompts |-> FALSE, max_additions |-> 1, prefix |-> <<"<">>,
     suffix |-> <<">">>, separator |-> Undefined]

PromptInit ==
    /\ PromptIdle
    /\ settings \in [add_to_prompts : BOOLEAN, max_additions : 0..MaxAdditionsBound,
                     prefix : Prefixes, suffix : Suffixes, separator : Separators]

addToMessage(content, r, isPrefix) ==
    LET skip == LimitBlocks(isPrefix, settings.add_to_prompts, counter,
                            settings.max_additions) \/ NoReasoning(r)
    IN  /\ calls < MaxCalls
        /\ calls' = calls + 1
        /\ lastCall' = [content |-> content, reasoning |-> r, isPrefix |-> isPrefix]
        /\ onlyPlain' = (onlyPlain /\ ~isPrefix /\ ~NoReasoning(r))
        /\ counter' = IF skip THEN counter ELSE counter + 1
        /\ prefixAdds' = IF ~skip /\ isPrefix THEN prefixAdds + 1 ELSE prefixAdds
        /\ result' = IF skip THEN content ELSE Combine(content, r, isPrefix, settings)
        /\ UNCHANGED settings
        /\ UNCHANGED <<trackerVars, parseVars, apiVars>>

PromptNext ==
    \E c \in Contents, r \in Reasonings, p \in BOOLEAN : addToMessage(c, r, p)

HandlerIdle ==
    /\ state = ReasoningState.None
    /\ reasoning = <<>>
    /\ startTime = Null
    /\ endTime = Null
    /\ initialTime = 0
    /\ isHidden = FALSE
    /\ clock = 0
    /\ doneCount = 0
    /\ emitted = NoEvent
    /\ lastOp = [name |-> "new", mesChanged |-> FALSE, started |-> FALSE]
    /\ endBy = "none"
    /\ finishedStarted = FALSE
    /\ scenarioCycle = 0
    /\ typeError = FALSE
    /\ pending = <<>>

TrackerIdle ==
    /\ HandlerIdle
    /\ extra = NoExtra
    /\ trim_spaces = FALSE
    /\ regexScript = "none"

\* ------------------------------------------------- parseReasoningFromString
ParseChar == {"<", ">", "\n", "."}

RECURSIVE SeqsOfLen(_, _)
SeqsOfLen(chars, n) ==
    IF n = 0 THEN {<<>>}
    ELSE {Append(s, c) : s \in SeqsOfLen(chars, n - 1), c \in chars}

ParseStrings == UNION {SeqsOfLen(ParseChar, n) : n \in 0..MaxInputLen}

ParsePrefixes == {Undefined, <<>>, <<"<">>, <<".">>}
ParseSuffixes == {Undefined, <<>>, <<">">>}

\* !x for a string setting
Falsy(s) == s = Undefined \/ s = <<>>

\* escapeRegex: a backslash before every regex metacharacter; of the
\* characters modelled only "." is one
RegexMeta == {"."}

RECURSIVE escapeRegex(_)
escapeRegex(s) ==
    IF s = <<>> THEN <<>>
    ELSE (IF Head(s) \in RegexMeta THEN <<"\\", Head(s)>> ELSE <<Head(s)>>)
         \o escapeRegex(Tail(s))

\* new RegExp(source) for a source without groups: an escaped character and a
\* plain character match themselves, "." matches any character
RECURSIVE RegExpTokens(_)
RegExpTokens(src) ==
    IF src = <<>> THEN <<>>
    ELSE IF Head(src) = "\\"
         THEN <<[any |-> FALSE, ch |-> src[2]]>> \o RegExpTokens(SubSeq(src, 3, Len(src)))
    ELSE IF Head(src) = "."
         THEN <<[any |-> TRUE, ch |-> "."]>> \o RegExpTokens(Tail(src))
    ELSE <<[any |-> FALSE, ch |-> Head(src)]>> \o RegExpTokens(Tail(src))

\* what "." matches under the regex's 's' flag (line 692): every character
DotMatches(c) == TRUE

\* how one compiled token matches one character
TokenMatches_DotWild(tok, c) == tok.any \/ tok.ch = "." \/ c = tok.ch

TokenMatches(tok, c) == IF tok.any THEN DotMatches(c) ELSE c = tok.ch

MatchesAt(toks, str, i) ==
    /\ i + Len(toks) - 1 <= Len(str)
    /\ \A j \in 1..Len(toks) : TokenMatches(toks[j], str[i + j - 1])

\* where the suffix can match after a prefix matched at i, (.*?) taking
\* everything in between
CaptureEnds(pre, suf, str, i) ==
    {k \in (i + Len(pre))..(Len(str) + 1) :
        /\ MatchesAt(suf, str, k)
        /\ \A j \in (i + Len(pre))..(k - 1) : DotMatches(str[j])}

MatchStarts(pre, suf, str) ==
    {i \in 1..Len(str) : MatchesAt(pre, str, i) /\ CaptureEnds(pre, suf, str, i) # {}}

Min(S) == CHOOSE x \in S : \A y \in S : x <= y

Max(S) == CHOOSE x \in S : \A y \in S : x >= y

\* (.*?) is lazy: the capture ends at the first place the suffix matches
LazyEnd_Greedy(ends) == Max(ends)

LazyEnd(ends) == Min(ends)

\* parseReasoningFromString, line 687
ParseRefuses_PrefixOnly(prefix, suffix) == Falsy(prefix)

ParseRefuses(prefix, suffix) == Falsy(prefix) \/ Falsy(suffix)

\* parseReasoningFromString, line 702
ParseTrims_Always(didReplace, trim) == trim

ParseTrims_Never(didReplace, trim) == FALSE

ParseTrims(didReplace, trim) == didReplace /\ trim

NullParse == [null |-> TRUE, reasoning |-> <<>>, content |-> <<>>]

parseReasoningFromString(str, prefix, suffix, trim) ==
    IF ParseRefuses(prefix, suffix) THEN NullParse
    ELSE LET pre == RegExpTokens(escapeRegex(prefix))
             suf == RegExpTokens(escapeRegex(suffix))
             starts == MatchStarts(pre, suf, str)
             didReplace == starts # {}
             i == Min(starts)
             k == LazyEnd(CaptureEnds(pre, suf, str, i))
             reasoning0 == IF didReplace THEN SubSeq(str, i + Len(pre), k - 1) ELSE <<>>
             content0 == IF didReplace
                         THEN SubSeq(str, 1, i - 1) \o SubSeq(str, k + Len(suf), Len(str))
                         ELSE str
         IN  [null |-> FALSE,
              reasoning |-> IF ParseTrims(didReplace, trim) THEN Trim(reasoning0) ELSE reasoning0,
              content |-> IF ParseTrims(didReplace, trim) THEN Trim(content0) ELSE content0]

NotParsed ==
    /\ parsedFrom = Undefined
    /\ parsed = NullParse
    /\ prevParsed = NullParse

NotReceived ==
    [ran |-> FALSE, found |-> FALSE, created |-> FALSE,
     contentUpdated |-> FALSE, rendered |-> FALSE, refreshed |-> FALSE]

ReceiveIdle == auto_parse = FALSE /\ received = NotReceived

ParseIdle == mes = <<>> /\ NotParsed /\ ReceiveIdle

ParseSettings ==
    [add_to_prompts : {FALSE}, max_additions : {1}, prefix : ParsePrefixes,
     suffix : ParseSuffixes, separator : {Undefined}]

\* a call parseReasoningFromString(mes)
parseString ==
    /\ parsedFrom' = mes
    /\ parsed' = parseReasoningFromString(mes, settings.prefix, settings.suffix, trim_spaces)
    /\ prevParsed' = parsed
    /\ UNCHANGED <<mes, auto_parse, received, trackerVars, promptVars, apiVars>>

\* the content an earlier call returned becomes the text at hand
takeContent ==
    /\ parsedFrom # Undefined
    /\ ~parsed.null
    /\ mes' = parsed.content
    /\ UNCHANGED <<parsedFrom, parsed, prevParsed, auto_parse, received,
                   trackerVars, promptVars, apiVars>>

ParseNext == parseString \/ takeContent

\* ------------------------------------ the MESSAGE_RECEIVED auto-parse handler
MaxMesLen == 4

MesStrings == UNION {SeqsOfLen(ParseChar, n) : n \in 0..MaxMesLen}

\* the text of a message that is still being generated
MesPlaceholder == <<".", ".", ".">>

\* the one message of the chat has index 0
MessageIds == {0, 1}

\* registerReasoningAppEvents, line 745
ContentUpdated_ReasoningOnly(p, text) == p.reasoning # <<>>

ContentUpdated(p, text) == p.reasoning # <<>> \/ p.content # text

messageReceived(idx, messageRendered) ==
    LET found == idx = 0
        parses == auto_parse /\ found /\ mes # <<>> /\ mes # MesPlaceholder
        p == parseReasoningFromString(mes, settings.prefix, settings.suffix, trim_spaces)
        writes == parses /\ ~p.null
        container == EnsureExtra(extra)
        contentUpdated == writes /\ ContentUpdated(p, mes)
    IN  /\ parsedFrom' = (IF parses THEN mes ELSE parsedFrom)
        /\ parsed' = (IF parses THEN p ELSE parsed)
        /\ prevParsed' = (IF parses THEN parsed ELSE prevParsed)
        /\ extra' = (IF ~writes THEN extra
                     ELSE IF p.reasoning # <<>> /\ container.present
                          THEN [container EXCEPT
                                   !.reasoning = getRegexedString(p.reasoning, regexScript)]
                     ELSE container)
        /\ mes' = (IF writes /\ p.content # mes THEN p.content ELSE mes)
        /\ received' = [ran |-> TRUE, found |-> found,
                        created |-> writes /\ ~extra.present,
                        contentUpdated |-> contentUpdated,
                        rendered |-> messageRendered,
                        refreshed |-> contentUpdated /\ messageRendered]
        /\ typeError' = (typeError \/ (writes /\ p.reasoning # <<>> /\ ~container.present))
        /\ UNCHANGED <<auto_parse, promptVars, apiVars>>
        /\ lastOp' = [name |-> "messageReceived", mesChanged |-> FALSE, started |-> FALSE]
        /\ emitted' = NoEvent
        /\ UNCHANGED <<state, reasoning, startTime, endTime, initialTime, isHidden,
                       trim_spaces, regexScript, clock, doneCount,
                       endBy, finishedStarted, scenarioCycle, pending>>

ReceiveNext ==
    \E idx \in MessageIds, messageRendered \in BOOLEAN : messageReceived(idx, messageRendered)

\* --------------------------------------------------- isHiddenReasoningModel
\* A model name is a sequence of pieces; no two pieces put together begin
\* with an entry of the allow-lists unless the first piece is that entry.
ModelPieces ==
    {"o", "o1", "o3", "gemini-2.0-flash-thinking-exp", "gemini-2.0-pro-exp", "-mini"}

ModelNames == UNION {SeqsOfLen(ModelPieces, n) : n \in 0..MaxModelLen}

MainApis == {"openai", "textgenerationwebui", "kobold"}

ChatCompletionSources == {"openai", "makersuite", "claude"}

\* String.prototype.startsWith
StartsWith_Equals(str, head) == str = head

StartsWith(str, head) ==
    Len(head) <= Len(str) /\ SubSeq(str, 1, Len(head)) = head

\* the allow-list of a source, or no entry for it
hiddenReasoningModels(source) ==
    IF source = "openai"
    THEN [listed |-> TRUE, currentModel |-> openai_model,
          models |-> {[kind |-> "startsWith", name |-> <<"o1">>],
                      [kind |-> "startsWith", name |-> <<"o3">>]}]
    ELSE IF source = "makersuite"
    THEN [listed |-> TRUE, currentModel |-> google_model,
          models |-> {[kind |-> "startsWith", name |-> <<"gemini-2.0-flash-thinking-exp">>],
                      [kind |-> "startsWith", name |-> <<"gemini-2.0-pro-exp">>]}]
    ELSE [listed |-> FALSE, currentModel |-> <<>>, models |-> {}]

\* the test models.some applies to an entry
ModelMatches(model, currentModel) ==
    IF model.kind = "string" THEN currentModel = model.name
    ELSE IF model.kind = "startsWith" THEN StartsWith(currentModel, model.name)
    ELSE FALSE

isHiddenReasoningModel ==
    IF main_api # "openai" THEN FALSE
    ELSE LET sourceConfig == hiddenReasoningModels(chat_completion_source)
         IN  IF ~sourceConfig.listed THEN FALSE
             ELSE \E model \in sourceConfig.models :
                      ModelMatches(model, sourceConfig.currentModel)

ApiIdle ==
    /\ main_api = "openai"
    /\ chat_completion_source = "openai"
    /\ openai_model = <<>>
    /\ google_model = <<>>
    /\ hiddenAsked = FALSE

\* new ReasoningHandler(): #isHidden = isHiddenReasoningModel()
askHidden ==
    /\ isHidden' = isHiddenReasoningModel
    /\ hiddenAsked' = TRUE
    /\ UNCHANGED <<main_api, chat_completion_source, openai_model, google_model>>
    /\ UNCHANGED <<state, reasoning, startTime, endTime, initialTime, extra,
                   trim_spaces, regexScript, clock, doneCount, emitted,
                   lastOp, endBy, finishedStarted, scenarioCycle, typeError, pending>>
    /\ UNCHANGED <<promptVars, parseVars>>

\* ---------------------------------------------------------- specifications
\* one ReasoningHandler session streaming into one message
Init == TrackerInit /\ PromptIdle /\ settings = DefaultSettings /\ ParseIdle /\ ApiIdle

Next == TrackerNext

Spec == Init /\ [][Next]_vars

\* one PromptReasoning instance used while a prompt is built
PromptSpecInit == TrackerIdle /\ PromptInit /\ ParseIdle /\ ApiIdle

PromptSpecNext == PromptNext

PromptSpec == PromptSpecInit /\ [][PromptSpecNext]_vars

\* parseReasoningFromString applied to strings under every configuration
ParseSpecInit ==
    /\ HandlerIdle
    /\ extra = NoExtra
    /\ regexScript = "none"
    /\ trim_spaces \in BOOLEAN
    /\ PromptIdle
    /\ settings \in ParseSettings
    /\ mes \in ParseStrings
    /\ NotParsed
    /\ ReceiveIdle
    /\ ApiIdle

ParseSpecNext == ParseNext

ParseSpec == ParseSpecInit /\ [][ParseSpecNext]_vars

\* MESSAGE_RECEIVED fired, once or repeatedly, for a message of the chat
ReceiveSpecInit ==
    /\ HandlerIdle
    /\ extra \in {NoExtra,
                  [present |-> TRUE, reasoning |-> <<".">>, reasoning_duration |-> UndefinedNum]}
    /\ regexScript \in {"none", "stripDot"}
    /\ trim_spaces \in BOOLEAN
    /\ PromptIdle
    /\ settings \in ParseSettings
    /\ mes \in MesStrings
    /\ NotParsed
    /\ auto_parse \in BOOLEAN
    /\ received = NotReceived
    /\ ApiIdle

ReceiveSpecNext == ReceiveNext

ReceiveSpec == ReceiveSpecInit /\ [][ReceiveSpecNext]_vars

\* one session whose calls overlap at their await points
AsyncSpecInit == Init

AsyncSpecNext == AsyncNext

AsyncSpec == AsyncSpecInit /\ [][AsyncSpecNext]_vars

\* one session streaming into a message that starts without an extra object
\* and for which MESSAGE_RECEIVED fires, once, at any point
MessageTexts == {<<".">>, <<"<", ".", ">", ".">>}

MessageSpecInit ==
    /\ TrackerInit
    /\ extra = NoExtra
    /\ initialTime = 0
    /\ trim_spaces = FALSE
    /\ regexScript = "none"
    /\ PromptIdle
    /\ settings \in {st \in ParseSettings : st.prefix = <<"<">> /\ st.suffix = <<">">>}
    /\ mes \in MessageTexts
    /\ NotParsed
    /\ auto_parse = TRUE
    /\ received = NotReceived
    /\ ApiIdle

MessageSpecNext == TrackerNext \/ (~received.ran /\ ReceiveNext)

MessageSpec == MessageSpecInit /\ [][MessageSpecNext]_vars

\* isHiddenReasoningModel under every backend, source and pair of models
HiddenSpecInit ==
    /\ TrackerIdle
    /\ PromptIdle
    /\ settings = DefaultSettings
    /\ ParseIdle
    /\ main_api \in MainApis
    /\ chat_completion_source \in ChatCompletionSources
    /\ openai_model \in ModelNames
    /\ google_model \in ModelNames
    /\ hiddenAsked = FALSE

HiddenSpecNext == askHidden

HiddenSpec == HiddenSpecInit /\ [][HiddenSpecNext]_vars

\* ------------------------------------------------------------- properties
ProcessStep == lastOp'.name = "process"

\* the cycle was not skipped by the early return
ProcessRan == ProcessStep /\ (reasoning # <<>> \/ isHidden)

FinishStep == lastOp'.name = "finish"

\* the text this cycle stored on the message is the text that was there
StoredSame == extra.present /\ extra'.reasoning = extra.reasoning

Duration == IF startTime # Null /\ endTime # Null THEN endTime - startTime ELSE Null

EndCommitted ==
    /\ endTime = Null
    /\ endTime' = clock'
    /\ doneCount' = doneCount + 1
    /\ emitted' = [sent |-> TRUE, text |-> extra'.reasoning,
                   duration |-> endTime' - startTime']

EndUntouched == endTime' = endTime /\ doneCount' = doneCount /\ ~emitted'.sent

\* C1: the "reasoning finished" notification is never emitted more than once
\* in a session, and it has been emitted exactly once as soon as finish has
\* been called on a session that recorded a start time, whether the end time
\* was committed by a process cycle or by finish.
C1_DoneExactlyOnce ==
    /\ doneCount <= 1
    /\ finishedStarted => doneCount = 1

C1_Witness ==
    /\ endBy = "process"
    /\ lastOp.name = "finish"
    /\ finishedStarted
    /\ doneCount = 1
    /\ ~emitted.sent

C3_Original ==
    [][/\ startTime' # startTime =>
            /\ ProcessStep
            /\ startTime = Null
            /\ reasoning # <<>>
            /\ ~StoredSame
            /\ startTime' = initialTime
       /\ startTime # Null => startTime' = startTime]_vars

\* C3 amended: a start time is recorded only by a process cycle in which no
\* start time is recorded yet and either the model is hidden-reasoning or the
\* session's reasoning text is non-empty and its processed form differs from
\* the value stored on the message; its value is initialTime, never the
\* cycle's currentTime, and it never changes afterwards.
C3_StartIsInitialTime ==
    [][/\ startTime' # startTime =>
            /\ ProcessStep
            /\ startTime = Null
            /\ isHidden \/ (reasoning # <<>> /\ ~StoredSame)
            /\ startTime' = initialTime
       /\ startTime # Null => startTime' = startTime
       /\ initialTime' = initialTime]_vars

C3_Witness ==
    /\ isHidden
    /\ reasoning = <<>>
    /\ startTime = initialTime
    /\ clock > initialTime
    /\ lastOp.name = "process"
    /\ extra.reasoning = <<>>
    /\ endTime = Null

\* C4 as stated: state follows the timing fields, None before a start time
\* is recorded, Thinking while a start time but no end time is recorded, Done
\* once an end time is recorded.
C4_StateFollowsTiming ==
    /\ startTime = Null => state = ReasoningState.None
    /\ startTime # Null /\ endTime = Null => state = ReasoningState.Thinking
    /\ endTime # Null => state = ReasoningState.Done

\* C5: once endTime is set, no step (process cycle, finish, or a change of
\* the reasoning text) changes startTime or endTime.
C5_TimingFinal ==
    [][endTime # Null => startTime' = startTime /\ endTime' = endTime]_vars

C5_Witness ==
    /\ endBy = "finish"
    /\ lastOp.name = "process"
    /\ lastOp.mesChanged
    /\ clock > endTime
    /\ (isHidden \/ extra.reasoning = FinalReasoning(reasoning))

\* C6: in every reachable state endTime set implies startTime set, and the
\* duration is null exactly when endTime is not set.
C6_EndImpliesStart ==
    /\ endTime # Null => startTime # Null
    /\ getDuration(startTime, endTime) = Null <=> endTime = Null

C6_Witness ==
    /\ endTime # Null
    /\ startTime # Null
    /\ getDuration(startTime, endTime) = endTime - startTime
    /\ getDuration(startTime, endTime) > 0

\* C7: when finish completes no start time is left without an end time: a
\* finish that finds a start time and no end time sets endTime, emits the
\* notification and stores a non-null reasoning_duration; any other finish
\* changes nothing and emits nothing.
C7_FinishClosesTiming ==
    [][FinishStep =>
         /\ ~(startTime' # Null /\ endTime' = Null)
         /\ IF startTime # Null /\ endTime = Null
            THEN /\ endTime' = clock'
                 /\ doneCount' = doneCount + 1
                 /\ emitted'.sent
                 /\ extra'.present
                 /\ extra'.reasoning_duration = endTime' - startTime
                 /\ extra'.reasoning_duration \notin {Null, UndefinedNum}
                 /\ startTime' = startTime
            ELSE /\ ~emitted'.sent
                 /\ UNCHANGED <<state, reasoning, startTime, endTime, extra, doneCount>>]_vars

C7_Witness ==
    /\ lastOp.name = "finish"
    /\ endBy = "finish"
    /\ doneCount = 1
    /\ emitted.sent
    /\ extra.reasoning_duration = endTime - startTime

\* C8 as stated: after every process cycle that is not skipped and after
\* every finish that finalizes, the message's extra holds the session's
\* current reasoning text (trimmed when trim_spaces is on) and the duration
\* endTime - startTime when both are set, null otherwise.
C8_Original ==
    [][ProcessRan \/ (FinishStep /\ startTime # Null /\ endTime = Null) =>
         /\ extra'.present
         /\ extra'.reasoning = (IF trim_spaces THEN Trim(reasoning') ELSE reasoning')
         /\ extra'.reasoning_duration = Duration']_vars

\* C8 amended: after every process cycle that is not skipped the message's
\* extra holds the session's current reasoning text (trimmed when trim_spaces
\* is on) and the duration endTime - startTime when both are set, null
\* otherwise; a finish that finalizes stores that duration and leaves the
\* stored reasoning text as it was.
C8_PersistedReasoning ==
    [][/\ ProcessRan =>
            /\ extra'.present
            /\ extra'.reasoning = (IF trim_spaces THEN Trim(reasoning') ELSE reasoning')
            /\ extra'.reasoning_duration = Duration'
       /\ FinishStep /\ startTime # Null /\ endTime = Null =>
            /\ extra'.present
            /\ extra'.reasoning = extra.reasoning
            /\ extra'.reasoning_duration = Duration'
            /\ Duration' # Null]_vars

C8_Witness ==
    /\ lastOp.name = "finish"
    /\ endBy = "finish"
    /\ trim_spaces
    /\ extra.reasoning # Trim(reasoning)
    /\ extra.reasoning_duration = endTime - startTime

\* C9 as stated: the counter never exceeds max_additions, whatever the mix
\* of prefix and non-prefix calls.
C9_Original == counter <= settings.max_additions

\* C9 amended: non-prefix calls never take the counter above max_additions;
\* the counter exceeds it by at most the number of isPrefix calls that
\* injected reasoning, which are not subject to the cap.
C9_CounterCapped == counter - prefixAdds <= settings.max_additions

C9_Witness ==
    /\ settings.add_to_prompts
    /\ prefixAdds = 0
    /\ counter = settings.max_additions
    /\ calls > counter
    /\ ~lastCall.isPrefix
    /\ ~NoReasoning(lastCall.reasoning)

\* C10: with add_to_prompts on and max_additions = N, a non-prefix call with
\* real reasoning increments the counter and returns
\* prefix+reasoning+suffix+separator+content while the counter is below N,
\* and returns content unchanged and leaves the counter alone afterwards; in
\* a run of such calls only, the counter is the number of calls up to N.
C10_FirstNInjected ==
    [][(/\ calls' = calls + 1
        /\ settings.add_to_prompts
        /\ ~lastCall'.isPrefix
        /\ lastCall'.reasoning \notin {Undefined, <<>>, REASONING_PLACEHOLDER}) =>
         /\ IF counter < settings.max_additions
            THEN /\ counter' = counter + 1
                 /\ result' = substituteParams(OrEmpty(settings.prefix))
                                \o lastCall'.reasoning
                                \o substituteParams(OrEmpty(settings.suffix))
                                \o substituteParams(OrEmpty(settings.separator))
                                \o lastCall'.content
            ELSE /\ counter' = counter
                 /\ result' = lastCall'.content
         /\ onlyPlain' =>
              counter' = (IF calls' < settings.max_additions
                          THEN calls' ELSE settings.max_additions)]_vars

C10_Witness ==
    /\ settings.add_to_prompts
    /\ settings.max_additions = 2
    /\ onlyPlain
    /\ calls = 3
    /\ counter = 2
    /\ lastCall.content # <<>>
    /\ result = lastCall.content

\* C11: addToMessage skips injection whenever reasoning is empty (or unset)
\* or is the placeholder: for every content and every isPrefix it returns
\* content unchanged and leaves the counter unchanged.
C11_NoReasoningSkips ==
    [][(/\ calls' = calls + 1
        /\ lastCall'.reasoning \in {Undefined, <<>>, REASONING_PLACEHOLDER}) =>
         /\ result' = lastCall'.content
         /\ counter' = counter]_vars

C11_Witness ==
    /\ calls > 0
    /\ lastCall.isPrefix
    /\ lastCall.reasoning = REASONING_PLACEHOLDER
    /\ lastCall.content # <<>>
    /\ settings.add_to_prompts
    /\ counter < settings.max_additions
    /\ result = lastCall.content

\* ------------------------------------- properties of parseReasoningFromString
Called == parsedFrom # Undefined

Configured == ~Falsy(settings.prefix) /\ ~Falsy(settings.suffix)

\* sub occurs in str at position i, character for character
Occurs(sub, str, i) ==
    /\ i >= 1
    /\ i + Len(sub) - 1 <= Len(str)
    /\ SubSeq(str, i, i + Len(sub) - 1) = sub

Contains(sub, str) == \E i \in 1..(Len(str) + 1) : Occurs(sub, str, i)

\* a prefix...suffix span: the prefix, and the suffix somewhere after it
HasSpan(str) ==
    \E i \in 1..Len(str) : \E k \in (i + Len(settings.prefix))..(Len(str) + 1) :
        Occurs(settings.prefix, str, i) /\ Occurs(settings.suffix, str, k)

FirstPrefix(str) == Min({i \in 1..Len(str) : Occurs(settings.prefix, str, i)})

NearestSuffix(str) ==
    Min({k \in (FirstPrefix(str) + Len(settings.prefix))..(Len(str) + 1) :
            Occurs(settings.suffix, str, k)})

\* the text of the first span, and the input without that span
SpanText(str) ==
    SubSeq(str, FirstPrefix(str) + Len(settings.prefix), NearestSuffix(str) - 1)

SpanRemoved(str) ==
    SubSeq(str, 1, FirstPrefix(str) - 1)
        \o SubSeq(str, NearestSuffix(str) + Len(settings.suffix), Len(str))

\* C12: with a non-empty prefix and suffix, both taken literally, only the
\* first span is extracted: up to surrounding white space (C15 says when that
\* is trimmed) the reasoning is the text between the first occurrence of the
\* prefix and the nearest following occurrence of the suffix, line breaks
\* included, and the content is the input with exactly that one span removed,
\* later spans staying in it.
C12_FirstSpanOnly ==
    (Called /\ Configured /\ HasSpan(parsedFrom)) =>
        /\ ~parsed.null
        /\ Trim(parsed.reasoning) = Trim(SpanText(parsedFrom))
        /\ Trim(parsed.content) = Trim(SpanRemoved(parsedFrom))
        /\ ~trim_spaces =>
            /\ parsed.reasoning = SpanText(parsedFrom)
            /\ parsed.content = SpanRemoved(parsedFrom)

C12_Witness ==
    /\ settings.prefix = <<"<">>
    /\ settings.suffix = <<">">>
    /\ ~trim_spaces
    /\ parsedFrom = <<"<", "\n", ">", "<", ".", ">">>
    /\ parsed.reasoning = <<"\n">>
    /\ parsed.content = <<"<", ".", ">">>

\* C13: with prefix and suffix configured, an input that lacks the prefix or
\* lacks the suffix comes back as the content, character for character, with
\* empty reasoning.
C13_NoMatchKeepsInput ==
    (/\ Called
     /\ Configured
     /\ ~Contains(settings.prefix, parsedFrom) \/ ~Contains(settings.suffix, parsedFrom)) =>
        /\ ~parsed.null
        /\ parsed.content = parsedFrom
        /\ parsed.reasoning = <<>>

C13_Witness ==
    /\ Configured
    /\ trim_spaces
    /\ parsedFrom = <<"\n", "<", ".", "\n">>
    /\ parsed.content = parsedFrom
    /\ parsed.reasoning = <<>>

\* C14: the parser returns null whenever the configured prefix or suffix is
\* empty or unset, for every input, and a result whenever both are non-empty.
C14_NullIffUnconfigured ==
    Called => (parsed.null <=> (Falsy(settings.prefix) \/ Falsy(settings.suffix)))

C14_Witness ==
    /\ Called
    /\ settings.prefix = <<"<">>
    /\ settings.suffix = <<>>
    /\ Contains(settings.prefix, parsedFrom)
    /\ parsed.null

\* C15: with trim_spaces on, reasoning and content are trimmed exactly when a
\* span matched, an unmatched input keeping its leading and trailing white
\* space; with trim_spaces off nothing is trimmed.
C15_TrimIffMatched ==
    (Called /\ Configured) =>
        IF HasSpan(parsedFrom)
        THEN /\ parsed.reasoning =
                  (IF trim_spaces THEN Trim(SpanText(parsedFrom)) ELSE SpanText(parsedFrom))
             /\ parsed.content =
                  (IF trim_spaces THEN Trim(SpanRemoved(parsedFrom)) ELSE SpanRemoved(parsedFrom))
        ELSE parsed.content = parsedFrom

C15_Witness ==
    /\ trim_spaces
    /\ settings.prefix = <<"<">>
    /\ settings.suffix = <<">">>
    /\ parsedFrom = <<"<", "\n", ".", ">", "\n", ".">>
    /\ parsed.reasoning = <<".">>
    /\ parsed.content = <<".">>

\* C16: parsing is idempotent on extracted content: when the content a call
\* returned holds no further span, parsing that content returns the same
\* content and empty reasoning.
C16_IdempotentOnContent ==
    (/\ Called
     /\ Configured
     /\ ~prevParsed.null
     /\ parsedFrom = prevParsed.content
     /\ ~HasSpan(parsedFrom)) =>
        /\ ~parsed.null
        /\ parsed.content = parsedFrom
        /\ parsed.reasoning = <<>>

C16_Witness ==
    /\ Configured
    /\ ~trim_spaces
    /\ prevParsed.reasoning # <<>>
    /\ parsedFrom = prevParsed.content
    /\ parsedFrom # <<>>
    /\ IsSpace(Head(parsedFrom))
    /\ parsed.content = parsedFrom
    /\ parsed.reasoning = <<>>

\* C19: the MESSAGE_RECEIVED handler updates the stored message exactly when
\* the parser replaced something.  With auto_parse on and a message text that
\* is neither empty nor '...', mes becomes the parsed content and the message
\* block (if the message is rendered) is refreshed if and only if a
\* prefix...suffix span matched; a span whose reasoning is empty leaves
\* extra.reasoning as it was.  With no span, with auto_parse off, with an
\* empty or '...' text, mes and extra.reasoning stay as they were.
C19_UpdatesIffReplaced ==
    [][lastOp'.name = "messageReceived" =>
        LET matched == /\ auto_parse
                       /\ received'.found
                       /\ mes # <<>>
                       /\ mes # MesPlaceholder
                       /\ Configured
                       /\ HasSpan(mes)
            text == IF trim_spaces THEN Trim(SpanText(mes)) ELSE SpanText(mes)
            rest == IF trim_spaces THEN Trim(SpanRemoved(mes)) ELSE SpanRemoved(mes)
        IN  IF matched
            THEN /\ mes' = rest
                 /\ mes' # mes
                 /\ received'.contentUpdated
                 /\ received'.refreshed <=> received'.rendered
                 /\ text = <<>> => extra'.reasoning = extra.reasoning
                 /\ text # <<>> => extra'.reasoning = getRegexedString(text, regexScript)
            ELSE /\ mes' = mes
                 /\ extra'.reasoning = extra.reasoning
                 /\ ~received'.contentUpdated
                 /\ ~received'.refreshed]_vars

C19_Witness ==
    /\ lastOp.name = "messageReceived"
    /\ auto_parse
    /\ trim_spaces
    /\ settings.prefix = <<"<">>
    /\ settings.suffix = <<">">>
    /\ parsedFrom = <<".", "<", "\n", ">">>
    /\ prevParsed = NullParse
    /\ parsed.reasoning = <<>>
    /\ extra.reasoning = <<".">>
    /\ mes = <<".">>
    /\ received.refreshed

\* the model selected for the source in use
SelectedModel == IF chat_completion_source = "makersuite" THEN google_model ELSE openai_model

\* C18: the hidden-model test is a function of the backend, the
\* chat-completion source and the selected model's name alone: false when the
\* backend is not 'openai' or the source has no allow-list, and otherwise true
\* exactly when the selected model equals an exact-match entry or starts with
\* a prefix-match entry of the source's allow-list.
C18_HiddenByAllowList ==
    hiddenAsked =>
        (isHidden <=>
            /\ main_api = "openai"
            /\ SelectedModel # <<>>
            /\ \/ /\ chat_completion_source = "openai"
                  /\ Head(SelectedModel) \in {"o1", "o3"}
               \/ /\ chat_completion_source = "makersuite"
                  /\ Head(SelectedModel) \in
                         {"gemini-2.0-flash-thinking-exp", "gemini-2.0-pro-exp"})

C18_Witness ==
    /\ hiddenAsked
    /\ isHidden
    /\ main_api = "openai"
    /\ chat_completion_source = "makersuite"
    /\ google_model = <<"gemini-2.0-pro-exp", "-mini">>
    /\ openai_model = <<"o">>

\* C17: a message without an extra object is never an error.  Over every
\* sequence of process and finish calls and MESSAGE_RECEIVED events on such a
\* message no call throws on the missing object: process and the handler
\* create it before they write, and finish/updateTime store a duration only
\* once it exists.
C17_MissingExtraNeverAnError ==
    /\ ~typeError
    /\ (extra.reasoning # Undefined \/ extra.reasoning_duration # UndefinedNum) => extra.present
    /\ (lastOp.name = "finish" /\ emitted.sent) => extra.present
    /\ (received.ran /\ received.contentUpdated) => extra.present

C17_Witness ==
    /\ received.ran
    /\ received.created
    /\ received.contentUpdated
    /\ lastOp.name = "finish"
    /\ emitted.sent
    /\ extra.present
    /\ extra.reasoning_duration # UndefinedNum

\* C20: when process and finish calls overlap at their await points (the
\* emission and the time update), STREAM_REASONING_DONE is still emitted at
\* most once and endTime is still written at most once, its test and its
\* assignment having no await between them.
C20_OnceUnderInterleaving ==
    /\ [](doneCount <= 1)
    /\ [][/\ endTime # Null => endTime' = endTime
          /\ doneCount' # doneCount => (endTime = Null /\ endTime' # Null)
          /\ endTime' # endTime => doneCount' = doneCount + 1]_vars

C20_Witness ==
    /\ Len(pending) = 1
    /\ pending[1] = "process"
    /\ lastOp.name = "finish"
    /\ endBy = "process"
    /\ doneCount = 1
    /\ extra.reasoning_duration = UndefinedNum

\* C21: in a session whose model is not hidden-reasoning, no process cycle
\* records the start time and the end time together: the cycle that sets
\* startTime leaves endTime unset, so endTime is committed by a later process
\* cycle or by finish.
C21_StartAndEndApart ==
    [][(ProcessStep /\ ~isHidden /\ startTime = Null /\ startTime' # Null) =>
         /\ endTime = Null
         /\ endTime' = Null
         /\ doneCount' = doneCount
         /\ ~emitted'.sent]_vars

C21_Witness ==
    /\ ~isHidden
    /\ lastOp.name = "process"
    /\ lastOp.mesChanged
    /\ lastOp.started
    /\ startTime # Null
    /\ endTime = Null
    /\ doneCount = 0

\* C22: in a session whose model is not hidden-reasoning, a process cycle run
\* while the session's reasoning text is empty is a no-op: startTime, endTime,
\* the message's reasoning and reasoning_duration stay as they were, no extra
\* object is created and nothing is emitted.
C22_EmptyCycleNoOp ==
    [][(ProcessStep /\ ~isHidden /\ reasoning = <<>>) =>
         /\ UNCHANGED <<startTime, endTime, extra, reasoning, doneCount, typeError>>
         /\ ~emitted'.sent]_vars

C22_Witness ==
    /\ ~isHidden
    /\ lastOp.name = "process"
    /\ lastOp.mesChanged
    /\ reasoning = <<>>
    /\ extra = NoExtra
    /\ startTime = Null
    /\ clock > initialTime

\* C23: a hidden-reasoning-model session tracks timing although no reasoning
\* text ever arrives: its first process cycle sets startTime = initialTime
\* with the reasoning still empty, and once finish has been called after at
\* least one process cycle the message holds a non-null reasoning_duration and
\* the notification has been emitted exactly once.
C23_HiddenSessionTimed ==
    /\ [][(ProcessStep /\ isHidden /\ startTime = Null) =>
            /\ startTime' = initialTime
            /\ extra'.present]_vars
    /\ []((isHidden /\ finishedStarted) =>
            /\ doneCount = 1
            /\ extra.present
            /\ extra.reasoning_duration \notin {Null, UndefinedNum}
            /\ extra.reasoning_duration = endTime - startTime)

C23_Witness ==
    /\ isHidden
    /\ reasoning = <<>>
    /\ extra.reasoning = <<>>
    /\ lastOp.name = "finish"
    /\ endBy = "finish"
    /\ finishedStarted
    /\ doneCount = 1
    /\ startTime = initialTime
    /\ extra.reasoning_duration = endTime - startTime

\* the call that has just returned or suspended emitted the notification
EmissionStep == doneCount' = doneCount + 1

\* C24: whenever the notification is emitted, by process or by finish,
\* endTime is already set, so the duration resolver it carries returns the
\* non-null endTime - startTime during the emission and at any time after it;
\* in process the reasoning text is already stored on the message at the
\* emission, and reasoning_duration is stored only by the step that follows
\* the emission.
C24_EmissionAfterEndTime ==
    /\ [][EmissionStep =>
            /\ emitted'.sent
            /\ startTime' # Null
            /\ endTime' # Null
            /\ emitted'.duration = endTime' - startTime'
            /\ emitted'.duration # Null
            /\ extra'.reasoning_duration = extra.reasoning_duration
            /\ extra'.reasoning_duration \in {Null, UndefinedNum}
            /\ lastOp'.name = "process" =>
                 /\ extra'.present
                 /\ extra'.reasoning = emitted'.text
            /\ Len(pending') = Len(pending) + 1]_vars
    /\ [][lastOp'.name = "resume" =>
            extra'.reasoning_duration = endTime - startTime]_vars
    /\ [](doneCount >= 1 =>
            /\ startTime # Null
            /\ endTime # Null
            /\ getDuration(startTime, endTime) = endTime - startTime)

C24_Witness ==
    /\ lastOp.name = "process"
    /\ emitted.sent
    /\ pending = <<"process">>
    /\ reasoning # <<>>
    /\ extra.reasoning = emitted.text
    /\ extra.reasoning_duration = Null
    /\ emitted.duration = endTime - startTime
    /\ emitted.duration > 0

\* C25: isLimitReached agrees with addToMessage on calls that are not the
\* prefix: in every counter state and configuration it is true if and only if
\* such a call with non-empty, non-placeholder reasoning returns the content
\* unchanged and leaves the counter alone; and a call never lowers the counter
\* nor raises it by more than one.
C25_LimitAgreesWithAdd ==
    [][calls' = calls + 1 =>
         /\ counter' \in {counter, counter + 1}
         /\ (~lastCall'.isPrefix /\ ~NoReasoning(lastCall'.reasoning)) =>
              /\ isLimitReached <=> (result' = lastCall'.content /\ counter' = counter)
              /\ ~isLimitReached => (result' # lastCall'.content /\ counter' = counter + 1)]_vars

C25_Witness ==
    /\ settings.add_to_prompts
    /\ settings.max_additions = 2
    /\ counter = 2
    /\ isLimitReached
    /\ calls = 3
    /\ ~lastCall.isPrefix
    /\ ~NoReasoning(lastCall.reasoning)
    /\ lastCall.content # <<>>
    /\ result = lastCall.content

====
